---- MODULE Spec2Model ----
(***************************************************************************)
(* Model of the vue-tsgo code generator: the template expression           *)
(* classifier (interpolation), the loop scope stack of the template        *)
(* walker, the useTemplateRef rewrite of the script generator, the import  *)
(* scanner, and the per-file compiler option directives of generate().     *)
(***************************************************************************)
EXTENDS Integers, Sequences, FiniteSets, TLC

VARIABLES
    expr,       \* interpolation: the parsed template expression
    locals,     \* interpolation: template-local names in scope at the expression
    codes,      \* interpolation: the generated items (text / identifier occurrences)
    ipc,        \* interpolation: "start" | "done"
    calls,      \* script setup: the useTemplateRef calls of the block, in source order
    refRanges,  \* script setup ranges: the collected useTemplateRef entries
    scodes,     \* script generator: one generated segment per useTemplateRef call
    spc,        \* script generator: "start" | "collected" | "done"
    script,     \* scanner: the statements of the raw script text
    imports,    \* scanner: the import list of the resulting source file
    mpc,        \* scanner: "start" | "done"
    path,       \* template walker: the nodes entered and not yet left
    scope,      \* template walker: the stack of loop-introduced bindings
    lastVisit,  \* template walker: the expression generated at the current node
    exited,     \* template walker: the node most recently left
    comments,       \* generate: ir.comments, the leading directive comments
    globalOptions,  \* generate: the caller's vueCompilerOptions object
    vueVersion,     \* environment: what resolveVueVersion finds for the file's folder
    resolvable,     \* environment: the plugin paths require.resolve can resolve
    localOptions,   \* generate: the result of parseLocalCompilerOptions
    resolver,       \* generate: the state of the compiler options resolver
    effective,      \* generate: the vueCompilerOptions used after the options region
    gpc,            \* generate: the region reached, "start" ... "returned" | "failed"
    ir,             \* generate: the blocks of the file (script, script setup, template, styles)
    ranges,         \* generate: scriptRanges and scriptSetupRanges
    derived,        \* generate: setupConsts, setupRefs, inheritAttrs, componentName
    generated,      \* generate: generatedTemplate and generatedStyle
    exposure,       \* generate: declaredVariables and setupExposed
    result,         \* generate: what the call handed to generateScript and returned
    history         \* caller: arguments and outcome of the generate calls that returned

ivars == <<expr, locals, codes, ipc>>

svars == <<calls, refRanges, scodes, spc>>

mvars == <<script, imports, mpc>>

lvars == <<path, scope, lastVisit, exited>>

gvars == <<comments, globalOptions, vueVersion, resolvable,
           localOptions, resolver, effective, gpc>>

gvarsButPc == <<comments, globalOptions, vueVersion, resolvable,
                localOptions, resolver, effective>>

fvars == <<ir, ranges, derived, generated, exposure, result, history>>

vars == <<expr, locals, codes, ipc, calls, refRanges, scodes, spc,
          script, imports, mpc, path, scope, lastVisit, exited,
          comments, globalOptions, vueVersion, resolvable,
          localOptions, resolver, effective, gpc,
          ir, ranges, derived, generated, exposure, result, history>>

(***************************************************************************)
(* Bounds                                                                  *)
(***************************************************************************)
NumNames == 3

AllNames == <<"foo", "bar", "baz", "qux", "item">>

Names == {AllNames[i] : i \in 1..NumNames}

(***************************************************************************)
(* Expression trees.  Every node has the same shape:                       *)
(*   k  node kind (ESTree / TS-ESTree name)                                *)
(*   n  name (identifier name, type name, keyword)                         *)
(*   c  children                                                           *)
(*   f  flag (computed / shorthand)                                        *)
(***************************************************************************)
Node(k, n, c, f) == [k |-> k, n |-> n, c |-> c, f |-> f]

Identifier(n) == Node("Identifier", n, <<>>, FALSE)
MemberExpression(o, p, computed) == Node("MemberExpression", "", <<o, p>>, computed)
Property(key, value, shorthand) == Node("Property", "", <<key, value>>, shorthand)
ObjectExpression(props) == Node("ObjectExpression", "", props, FALSE)
TSAsExpression(e, t) == Node("TSAsExpression", "", <<e, t>>, FALSE)
TSKeyword(n) == Node("TSKeyword", n, <<>>, FALSE)
TSTypeReference(n, args) == Node("TSTypeReference", n, args, FALSE)
TSTypeQuery(n) == Node("TSTypeQuery", n, <<>>, FALSE)
TSTypeOperator(t) == Node("TSTypeOperator", "keyof", <<t>>, FALSE)
TSTypeLiteral(members) == Node("TSTypeLiteral", "", members, FALSE)
TSPropertySignature(key, t, computed) == Node("TSPropertySignature", "", <<key, t>>, computed)
TSParameter(n, t) == Node("TSParameter", n, <<t>>, FALSE)
TSMethodSignature(n, params, ret) == Node("TSMethodSignature", n, params \o <<ret>>, FALSE)
TSFunctionType(params, ret) == Node("TSFunctionType", "", params \o <<ret>>, FALSE)

(***************************************************************************)
(* Generated items: literal text, or one identifier occurrence with its    *)
(* grammatical position, its classification and whether it was prefixed.   *)
(***************************************************************************)
Text(s) == [t |-> "text", s |-> s, pos |-> "", cls |-> "", pre |-> FALSE]
Occ(n, pos, cls, pre) == [t |-> "id", s |-> n, pos |-> pos, cls |-> cls, pre |-> pre]

CtxPrefix == "__VLS_ctx."

(***************************************************************************)
(* The type-context flag on entry to each grammatical position.            *)
(***************************************************************************)
EnterTypeAnnotation(flag) == TRUE

EnterTypeArguments(flag) == TRUE

EnterKeyofOperand(flag) == TRUE

EnterTypeLiteralMembers(flag) == TRUE

\* mutant: a signature key walked as an expression
EnterSignatureKeyAsValue(flag) == FALSE

EnterSignatureKey(flag) == TRUE

EnterSignatureParameter(flag) == TRUE

EnterComputedKey(flag) == FALSE

\* mutant: the operand of typeof inherits the flag of the enclosing type
EnterTypeQueryOperandKeep(flag) == flag

EnterTypeQueryOperand(flag) == FALSE

(***************************************************************************)
(* One identifier leaf: TypeName while the flag is set (emitted            *)
(* unchanged), otherwise Value, prefixed unless it is a template local.    *)
(***************************************************************************)
\* mutant: a value identifier is never rewritten
WalkIdentifierBare(n, pos, flag, loc) ==
    IF flag
    THEN <<Occ(n, pos, "TypeName", FALSE)>>
    ELSE <<Occ(n, pos, "Value", FALSE)>>

WalkIdentifier(n, pos, flag, loc) ==
    IF flag
    THEN <<Occ(n, pos, "TypeName", FALSE)>>
    ELSE <<Occ(n, pos, "Value", n \notin loc)>>

\* a name that is never classified: copied from the source text
Verbatim(n, pos) == <<Occ(n, pos, "", FALSE)>>

RECURSIVE Walk(_, _, _, _), WalkList(_, _, _, _, _)

\* mutant: a computed index copied like a property name
WalkMemberIndexVerbatim(node, pos, flag, loc) ==
    Walk(node.c[1], pos, flag, loc) \o
    (IF node.f
     THEN <<Text("[")>> \o Verbatim(node.c[2].n, "Index") \o <<Text("]")>>
     ELSE <<Text(".")>> \o Verbatim(node.c[2].n, "MemberProperty"))

WalkMember(node, pos, flag, loc) ==
    Walk(node.c[1], pos, flag, loc) \o
    (IF node.f
     THEN <<Text("[")>> \o Walk(node.c[2], "Index", flag, loc) \o <<Text("]")>>
     ELSE <<Text(".")>> \o Verbatim(node.c[2].n, "MemberProperty"))

\* mutant: a shorthand property emitted without a synthesized key
WalkPropertyNoKey(node, flag, loc) ==
    (IF node.f THEN <<>> ELSE Verbatim(node.c[1].n, "PropertyKey") \o <<Text(":")>>) \o
    Walk(node.c[2], IF node.f THEN "Shorthand" ELSE "Root", flag, loc)

WalkProperty(node, flag, loc) ==
    Verbatim(node.c[1].n, "PropertyKey") \o <<Text(":")>> \o
    Walk(node.c[2], IF node.f THEN "Shorthand" ELSE "Root", flag, loc)

WalkPropertySignature(node, flag, loc) ==
    (IF node.f
     THEN <<Text("[")>> \o Walk(node.c[1], "Root", EnterComputedKey(flag), loc) \o <<Text("]")>>
     ELSE WalkIdentifier(node.c[1].n, "PropertySignatureKey", EnterSignatureKey(flag), loc)) \o
    <<Text(":")>> \o Walk(node.c[2], "Root", flag, loc)

WalkSignature(node, flag, loc) ==
    <<Text("(")>> \o
    WalkList(SubSeq(node.c, 1, Len(node.c) - 1), ",", "Root", flag, loc) \o
    <<Text(")")>>

Walk(node, pos, flag, loc) ==
    CASE node.k = "Identifier" -> WalkIdentifier(node.n, pos, flag, loc)
      [] node.k = "MemberExpression" -> WalkMember(node, pos, flag, loc)
      [] node.k = "ObjectExpression" ->
            <<Text("{")>> \o WalkList(node.c, ",", "Root", flag, loc) \o <<Text("}")>>
      [] node.k = "Property" -> WalkProperty(node, flag, loc)
      [] node.k = "TSAsExpression" ->
            Walk(node.c[1], pos, flag, loc) \o <<Text("as")>> \o
            Walk(node.c[2], "Root", EnterTypeAnnotation(flag), loc)
      [] node.k = "TSKeyword" -> <<Text(node.n)>>
      [] node.k = "TSTypeReference" ->
            WalkIdentifier(node.n, "TypeReferenceName", flag, loc) \o
            (IF node.c = <<>> THEN <<>>
             ELSE <<Text("<")>> \o
                  WalkList(node.c, ",", "Root", EnterTypeArguments(flag), loc) \o
                  <<Text(">")>>)
      [] node.k = "TSTypeQuery" ->
            <<Text("typeof")>> \o
            WalkIdentifier(node.n, "TypeQueryOperand", EnterTypeQueryOperand(flag), loc)
      [] node.k = "TSTypeOperator" ->
            <<Text(node.n)>> \o Walk(node.c[1], "Root", EnterKeyofOperand(flag), loc)
      [] node.k = "TSTypeLiteral" ->
            <<Text("{")>> \o
            WalkList(node.c, ";", "Root", EnterTypeLiteralMembers(flag), loc) \o
            <<Text("}")>>
      [] node.k = "TSPropertySignature" -> WalkPropertySignature(node, flag, loc)
      [] node.k = "TSMethodSignature" ->
            WalkIdentifier(node.n, "MethodSignatureName", EnterSignatureKey(flag), loc) \o
            WalkSignature(node, flag, loc) \o <<Text(":")>> \o
            Walk(node.c[Len(node.c)], "Root", flag, loc)
      [] node.k = "TSParameter" ->
            WalkIdentifier(node.n, "SignatureParameter", EnterSignatureParameter(flag), loc) \o
            <<Text(":")>> \o Walk(node.c[1], "Root", flag, loc)
      [] node.k = "TSFunctionType" ->
            WalkSignature(node, flag, loc) \o <<Text("=>")>> \o
            Walk(node.c[Len(node.c)], "Root", flag, loc)

WalkList(nodes, sep, pos, flag, loc) ==
    IF nodes = <<>> THEN <<>>
    ELSE Walk(Head(nodes), pos, flag, loc) \o
         (IF Len(nodes) = 1 THEN <<>> ELSE <<Text(sep)>>) \o
         WalkList(Tail(nodes), sep, pos, flag, loc)

\* the template generator's entry point for one attribute / interpolation
generateInterpolation(e, loc) == Walk(e, "Root", FALSE, loc)

(***************************************************************************)
(* The emitted text, as a sequence of lexical tokens.                      *)
(***************************************************************************)
RECURSIVE EmitText(_)
EmitText(items) ==
    IF items = <<>> THEN <<>>
    ELSE LET it == Head(items) IN
         (IF it.t = "id" /\ it.pre THEN <<CtxPrefix, it.s>> ELSE <<it.s>>) \o
         EmitText(Tail(items))

(***************************************************************************)
(* The original text of a node, as lexical tokens.                         *)
(***************************************************************************)
RECURSIVE SourceText(_), SourceList(_, _)
SourceText(node) ==
    CASE node.k \in {"Identifier", "TSKeyword"} -> <<node.n>>
      [] node.k = "MemberExpression" ->
            SourceText(node.c[1]) \o
            (IF node.f THEN <<"[">> \o SourceText(node.c[2]) \o <<"]">>
             ELSE <<".">> \o SourceText(node.c[2]))
      [] node.k = "ObjectExpression" -> <<"{">> \o SourceList(node.c, ",") \o <<"}">>
      [] node.k = "Property" ->
            IF node.f THEN SourceText(node.c[1])
            ELSE SourceText(node.c[1]) \o <<":">> \o SourceText(node.c[2])
      [] node.k = "TSAsExpression" ->
            SourceText(node.c[1]) \o <<"as">> \o SourceText(node.c[2])
      [] node.k = "TSTypeReference" ->
            <<node.n>> \o
            (IF node.c = <<>> THEN <<>> ELSE <<"<">> \o SourceList(node.c, ",") \o <<">">>)
      [] node.k = "TSTypeQuery" -> <<"typeof", node.n>>
      [] node.k = "TSTypeOperator" -> <<node.n>> \o SourceText(node.c[1])
      [] node.k = "TSTypeLiteral" -> <<"{">> \o SourceList(node.c, ";") \o <<"}">>
      [] node.k = "TSPropertySignature" ->
            (IF node.f THEN <<"[">> \o SourceText(node.c[1]) \o <<"]">>
             ELSE SourceText(node.c[1])) \o <<":">> \o SourceText(node.c[2])
      [] node.k = "TSMethodSignature" ->
            <<node.n, "(">> \o SourceList(SubSeq(node.c, 1, Len(node.c) - 1), ",") \o
            <<")", ":">> \o SourceText(node.c[Len(node.c)])
      [] node.k = "TSParameter" -> <<node.n, ":">> \o SourceText(node.c[1])
      [] node.k = "TSFunctionType" ->
            <<"(">> \o SourceList(SubSeq(node.c, 1, Len(node.c) - 1), ",") \o
            <<")", "=>">> \o SourceText(node.c[Len(node.c)])

SourceList(nodes, sep) ==
    IF nodes = <<>> THEN <<>>
    ELSE SourceText(Head(nodes)) \o
         (IF Len(nodes) = 1 THEN <<>> ELSE <<sep>>) \o
         SourceList(Tail(nodes), sep)

\* s occurs in t as a contiguous run of tokens
Contains(t, s) ==
    \E i \in 0..(Len(t) - Len(s)) : SubSeq(t, i + 1, i + Len(s)) = s


(***************************************************************************)
(* The bounded set of template expressions.                                *)
(***************************************************************************)
Ids == {Identifier(n) : n \in Names}

KwString == TSKeyword("string")

Types0 ==
    {KwString} \cup {TSTypeReference(n, <<>>) : n \in Names}
               \cup {TSTypeQuery(n) : n \in Names}

TypeLiterals ==
    {TSTypeLiteral(<<TSPropertySignature(k, t, FALSE)>>) : k \in Ids, t \in Types0}
    \cup {TSTypeLiteral(<<TSPropertySignature(k, KwString, TRUE)>>) : k \in Ids}
    \cup {TSTypeLiteral(<<TSPropertySignature(k, KwString, FALSE),
                          TSPropertySignature(m, KwString, FALSE)>>) : k \in Ids, m \in Ids}
    \cup {TSTypeLiteral(<<TSMethodSignature(k, <<TSParameter(m, KwString)>>, TSKeyword("void"))>>) :
            k \in Names, m \in Names}
    \cup {TSTypeLiteral(<<TSPropertySignature(k,
                            TSTypeLiteral(<<TSPropertySignature(m, KwString, TRUE)>>), FALSE)>>) :
            k \in Ids, m \in Ids}

Types1 ==
    Types0 \cup TypeLiterals
    \cup {TSTypeOperator(t) : t \in Types0}
    \cup {TSTypeReference(n, <<t>>) : n \in Names, t \in Types0}
    \cup {TSTypeReference(n, <<TSTypeQuery(m), TSTypeLiteral(<<TSPropertySignature(k, KwString, FALSE)>>)>>) :
            n \in Names, m \in Names, k \in Ids}
    \cup {TSTypeOperator(TSTypeReference(n, <<TSTypeReference(m, <<>>)>>)) : n \in Names, m \in Names}
    \cup {TSFunctionType(<<TSParameter(n, KwString)>>, TSKeyword("void")) : n \in Names}

Members1 == {MemberExpression(o, p, FALSE) : o \in Ids, p \in Ids}

Exprs ==
    Ids \cup Members1
    \cup {MemberExpression(o, p, c) : o \in Members1, p \in Ids, c \in BOOLEAN}
    \cup {ObjectExpression(<<Property(k, v, FALSE), Property(m, m, TRUE)>>) :
            k \in Ids, v \in Ids, m \in Ids}
    \cup {TSAsExpression(e, t) : e \in Ids, t \in Types1}

NoNode == Node("", "", <<>>, FALSE)

ScriptIdle == calls = <<>> /\ refRanges = <<>> /\ scodes = <<>> /\ spc = "off"

ScanIdle == script = <<>> /\ imports = <<>> /\ mpc = "off"

NoFrame == [for |-> FALSE, item |-> "", index |-> ""]

NoVisit == [name |-> "", pre |-> FALSE]

LoopIdle == path = <<>> /\ scope = <<>> /\ lastVisit = NoVisit /\ exited = NoFrame

(***************************************************************************)
(* JSON / JavaScript values, all of one record shape:                      *)
(*   t  "undefined" | "null" | "bool" | "num" | "str" | "arr" | "obj"      *)
(*   b  the boolean, n the number (in tenths: 3.5 is 35), s the string,    *)
(*   a  the array (of strings), o the object (a set of <<key, value>>)     *)
(***************************************************************************)
JValue(t, b, n, str, a, o) == [t |-> t, b |-> b, n |-> n, s |-> str, a |-> a, o |-> o]

Undefined == JValue("undefined", FALSE, 0, "", <<>>, {})
JBool(b) == JValue("bool", b, 0, "", <<>>, {})
JNum(n) == JValue("num", FALSE, n, "", <<>>, {})
JStr(str) == JValue("str", FALSE, 0, str, <<>>, {})
JArr(a) == JValue("arr", FALSE, 0, "", a, {})
JObj(o) == JValue("obj", FALSE, 0, "", <<>>, o)
JNull == JValue("null", FALSE, 0, "", <<>>, {})

OptionKeys ==
    {"target", "typesRoot", "strictTemplates", "lib", "plugins", "macros", "composables",
     "fallthroughComponentNames", "experimentalModelPropName",
     "strictVModel", "checkUnknownProps", "checkUnknownEvents",
     "checkUnknownDirectives", "checkUnknownComponents", "skipTemplateCodegen"}

\* an object without own keys
EmptyObject == [k \in OptionKeys |-> Undefined]

NoOptions == [defined |-> FALSE, entries |-> <<>>, threw |-> FALSE]

NoResolver ==
    [created |-> FALSE, resolved |-> EmptyObject, plugins |-> <<>>,
     target |-> Undefined, typesRoot |-> Undefined]

GenerateIdle ==
    /\ comments = <<>> /\ globalOptions = EmptyObject /\ vueVersion = Undefined
    /\ resolvable = {} /\ localOptions = NoOptions /\ resolver = NoResolver
    /\ effective = EmptyObject /\ gpc = "off"

\* a script block's declarations as the range collectors see them
Decl(bindings, components, name, inheritAttrs, destructured, destructuredRest, refs) ==
    [bindings |-> bindings, components |-> components, name |-> name,
     inheritAttrs |-> inheritAttrs, destructured |-> destructured,
     destructuredRest |-> destructuredRest, refs |-> refs]

EmptyDecl == Decl(<<>>, <<>>, <<>>, "undefined", <<>>, <<>>, <<>>)

\* ir.script / ir.scriptSetup when the file has no such block
NoBlock == [exists |-> FALSE, malformed |-> FALSE, content |-> <<>>, decl |-> EmptyDecl]

\* ir.template when the file has no template
NoTemplate == [exists |-> FALSE, components |-> <<>>, accesses |-> {}, dollars |-> {}]

NoIR ==
    [fileName |-> <<>>, script |-> NoBlock, scriptSetup |-> NoBlock,
     template |-> NoTemplate, styles |-> 0]

\* `ir.script && collectScriptRanges(ir.script)` of an absent block
NoRanges ==
    [defined |-> FALSE, bindings |-> <<>>, components |-> <<>>, name |-> <<>>,
     optionsName |-> <<>>, inheritAttrs |-> "undefined", destructured |-> <<>>,
     destructuredRest |-> <<>>, useTemplateRef |-> <<>>]

NoRangesPair == [script |-> NoRanges, scriptSetup |-> NoRanges]

NoDerived ==
    [setupConsts |-> {}, setupRefs |-> {}, inheritAttrs |-> TRUE, componentName |-> <<>>]

\* generatedTemplate / generatedStyle before the generators are called
NoGenerated ==
    [template |-> [defined |-> FALSE, accessedVars |-> {}, dollarVars |-> {},
                   setupConsts |-> {}, setupRefs |-> {}, componentName |-> <<>>,
                   inheritAttrs |-> TRUE],
     style |-> [defined |-> FALSE, setupConsts |-> {}, setupRefs |-> {}]]

NoExposure == [declaredVariables |-> {}, setupExposed |-> {}]

NoResult == [returned |-> FALSE, scriptGenerated |-> FALSE, exposed |-> {}]

FileIdle ==
    /\ ir = NoIR /\ ranges = NoRangesPair /\ derived = NoDerived
    /\ generated = NoGenerated /\ exposure = NoExposure /\ result = NoResult
    /\ history = <<>>

(***************************************************************************)
(* Interpolation: one attribute / interpolation expression is generated    *)
(* with the template locals that are in scope at its node.                 *)
(***************************************************************************)
InterpIdle == expr = NoNode /\ locals = {} /\ codes = <<>> /\ ipc = "off"

InterpInit ==
    /\ ScriptIdle /\ ScanIdle /\ LoopIdle /\ GenerateIdle
    /\ expr \in Exprs
    /\ locals \in SUBSET Names
    /\ codes = <<>>
    /\ ipc = "start"
    /\ FileIdle

Interpolate ==
    /\ ipc = "start"
    /\ codes' = generateInterpolation(expr, locals)
    /\ ipc' = "done"
    /\ UNCHANGED <<expr, locals>>

InterpNext == Interpolate /\ UNCHANGED <<svars, mvars, lvars, gvars, fvars>>

SpecInterp == InterpInit /\ [][InterpNext]_vars


(***************************************************************************)
(* Helpers for the interpolation properties.                               *)
(***************************************************************************)
RECURSIVE SubNodes(_)
SubNodes(node) ==
    {node} \cup UNION {SubNodes(node.c[i]) : i \in DOMAIN node.c}

\* a type whose text holds no expression context (computed key, type query)
PureType(node) ==
    \A d \in SubNodes(node) :
        /\ d.k # "TSTypeQuery"
        /\ ~(d.k = "TSPropertySignature" /\ d.f)

TypePositions ==
    {"PropertySignatureKey", "MethodSignatureName", "SignatureParameter", "TypeReferenceName"}

IdItems == {i \in DOMAIN codes : codes[i].t = "id"}

\* C1: an identifier in a type position (property-signature key, method-signature
\* name or parameter, type reference name in a type-argument list or under keyof)
\* is emitted without the context-access prefix, whatever the template locals are
\* and whatever else the expression uses the name for; a type literal without
\* expression context appears in the emitted text unmodified.
C1_TypePositionsUnprefixed ==
    ipc = "done" =>
        /\ \A i \in IdItems :
              codes[i].pos \in TypePositions =>
                  /\ ~codes[i].pre
                  /\ codes[i].cls = "TypeName"
        /\ \A d \in SubNodes(expr) :
              (d.k = "TSTypeLiteral" /\ PureType(d)) =>
                  Contains(EmitText(codes), SourceText(d))
        /\ \A i \in DOMAIN codes :
              (codes[i].t = "id" /\ codes[i].cls = "TypeName") =>
                  \/ i = 1
                  \/ EmitText(SubSeq(codes, 1, i)) =
                        EmitText(SubSeq(codes, 1, i - 1)) \o <<codes[i].s>>

\* a property-signature key stays bare while the same name is prefixed as a
\* runtime value elsewhere in the same expression
C1_Witness ==
    /\ ipc = "done"
    /\ \E i \in IdItems, j \in IdItems :
          /\ codes[i].pos = "PropertySignatureKey"
          /\ codes[j].pre
          /\ codes[i].s = codes[j].s
    /\ \E d \in SubNodes(expr) : d.k = "TSTypeLiteral" /\ PureType(d)

ObjFooBarBaz ==
    ObjectExpression(<<Property(Identifier("foo"), Identifier("bar"), FALSE),
                       Property(Identifier("baz"), Identifier("baz"), TRUE)>>)

\* C2: in an object literal in value position a shorthand property `{ baz }` is
\* emitted as `baz: <prefixed baz>` and a full property `{ foo: bar }` keeps its
\* key and prefixes only the value; `{ foo: bar, baz }` is emitted exactly as
\* `{ foo: __VLS_ctx.bar, baz: __VLS_ctx.baz }`.
C2_ObjectLiteralProperties ==
    (ipc = "done" /\ expr.k = "ObjectExpression") =>
        LET text == EmitText(codes)
            Val(n) == IF n \in locals THEN <<n>> ELSE <<CtxPrefix, n>>
            PropText(p) == <<p.c[1].n, ":">> \o Val(p.c[2].n)
        IN  /\ text = <<"{">> \o PropText(expr.c[1]) \o <<",">> \o PropText(expr.c[2]) \o <<"}">>
            /\ \A i \in IdItems : codes[i].pos = "PropertyKey" => ~codes[i].pre
            /\ (expr = ObjFooBarBaz /\ locals = {}) =>
                  text = <<"{", "foo", ":", CtxPrefix, "bar", ",",
                           "baz", ":", CtxPrefix, "baz", "}">>

C2_Witness ==
    /\ ipc = "done"
    /\ expr = ObjFooBarBaz
    /\ locals = {}
    /\ Len(codes) > 0

FooBarBaz ==
    MemberExpression(MemberExpression(Identifier("foo"), Identifier("bar"), FALSE),
                     Identifier("baz"), FALSE)

FooBarIndexBaz ==
    MemberExpression(MemberExpression(Identifier("foo"), Identifier("bar"), FALSE),
                     Identifier("baz"), TRUE)

\* C3: in a member-access chain in value position the root is prefixed exactly
\* once, a property name after a dot is never prefixed, and an identifier used as
\* a computed index is prefixed under the same rule as a root.
C3_MemberChain ==
    (ipc = "done" /\ expr.k = "MemberExpression") =>
        LET text == EmitText(codes)
            roots == {i \in IdItems : codes[i].pos = "Root"}
        IN  /\ Cardinality(roots) = 1
            /\ roots = {1}
            /\ \A i \in IdItems :
                  /\ codes[i].pos = "MemberProperty" => ~codes[i].pre
                  /\ codes[i].pos \in {"Root", "Index"} =>
                        (codes[i].pre <=> codes[i].s \notin locals)
            /\ (\E i \in IdItems : codes[i].pos = "Index") <=> expr.f
            /\ (expr = FooBarBaz /\ locals = {}) =>
                  text = <<CtxPrefix, "foo", ".", "bar", ".", "baz">>
            /\ (expr = FooBarIndexBaz /\ locals = {}) =>
                  text = <<CtxPrefix, "foo", ".", "bar", "[", CtxPrefix, "baz", "]">>

C3_Witness ==
    /\ ipc = "done"
    /\ expr = FooBarIndexBaz
    /\ locals = {}
    /\ \E i \in IdItems : codes[i].pos = "Index" /\ codes[i].pre

\* C4 as stated: the name following `typeof` is classified TypeName and is
\* emitted unchanged.
C4_Original ==
    ipc = "done" =>
        \A i \in IdItems :
            codes[i].pos = "TypeQueryOperand" =>
                (codes[i].cls = "TypeName" /\ ~codes[i].pre)

\* C4 (amended): the name following `typeof` in a type query is classified
\* Value (the type-context flag is cleared on entry to the operand), so it is
\* prefixed exactly when it is not a template-local binding.
C4_TypeQueryOperandIsValue ==
    ipc = "done" =>
        \A i \in IdItems :
            codes[i].pos = "TypeQueryOperand" =>
                /\ codes[i].cls = "Value"
                /\ codes[i].pre <=> codes[i].s \notin locals

\* a type query inside a type-argument list, its operand prefixed
C4_Witness ==
    /\ ipc = "done"
    /\ expr.k = "TSAsExpression"
    /\ expr.c[2].k = "TSTypeReference"
    /\ \E i \in IdItems : codes[i].pos = "TypeQueryOperand" /\ codes[i].pre
    /\ \E i \in IdItems : codes[i].pos = "PropertySignatureKey" /\ codes[i].cls = "TypeName"

AsTypeofBar == TSAsExpression(Identifier("foo"), TSTypeQuery("bar"))

\* C5: in a cast `X as typeof Y` with Y not a template local, Y is emitted with
\* the context-access prefix: the text contains `as typeof __VLS_ctx.Y`.
C5_CastTypeofPrefixed ==
    (/\ ipc = "done"
     /\ expr.k = "TSAsExpression"
     /\ expr.c[2].k = "TSTypeQuery"
     /\ expr.c[2].n \notin locals) =>
        /\ Contains(EmitText(codes), <<"as", "typeof", CtxPrefix, expr.c[2].n>>)
        /\ expr = AsTypeofBar =>
              Contains(EmitText(codes), <<"as", "typeof", CtxPrefix, "bar">>)

C5_Witness ==
    /\ ipc = "done"
    /\ expr = AsTypeofBar
    /\ "bar" \notin locals
    /\ codes # <<>>


(***************************************************************************)
(* Script generation of useTemplateRef calls.  A call is                   *)
(*   [name: the string argument, typeArg: the explicit type argument or    *)
(*    "" when the call has none].                                          *)
(***************************************************************************)
MaxCalls == 3

RefNames == {"rootRef", "el"}

RefTypeArgs == {"", "ComponentPublicInstance"}

RefCalls == [name : RefNames, typeArg : RefTypeArgs]

SeqsUpTo(S, n) == UNION {[1..k -> S] : k \in 0..n}

\* the original text of one call
CallText(call) ==
    <<"useTemplateRef">> \o
    (IF call.typeArg = "" THEN <<>> ELSE <<"<", call.typeArg, ">">>) \o
    <<"(", call.name, ")">>

\* the range collector records, per call, the name and whether an explicit
\* type argument was supplied
collectUseTemplateRef(call) ==
    [name |-> call.name, hasTypeArg |-> call.typeArg # "", text |-> CallText(call)]

\* mutant: every call is wrapped in the narrowing cast
generateUseTemplateRefAlwaysCast(range) ==
    <<"(">> \o range.text \o
    <<"as", "Readonly<", "ShallowRef<", "__VLS_TemplateRefs[", range.name, "]", "|", "null", ">", ">", ")">>

generateUseTemplateRef(range) ==
    IF range.hasTypeArg
    THEN range.text
    ELSE <<"(">> \o range.text \o
         <<"as", "Readonly<", "ShallowRef<", "__VLS_TemplateRefs[", range.name, "]", "|", "null", ">", ">", ")">>

ScriptInit ==
    /\ InterpIdle /\ ScanIdle /\ LoopIdle /\ GenerateIdle
    /\ calls \in SeqsUpTo(RefCalls, MaxCalls)
    /\ refRanges = <<>>
    /\ scodes = <<>>
    /\ spc = "start"
    /\ FileIdle

CollectScriptSetupRanges ==
    /\ spc = "start"
    /\ refRanges' = [i \in DOMAIN calls |-> collectUseTemplateRef(calls[i])]
    /\ spc' = "collected"
    /\ UNCHANGED <<calls, scodes>>

GenerateScript ==
    /\ spc = "collected"
    /\ scodes' = [i \in DOMAIN refRanges |-> generateUseTemplateRef(refRanges[i])]
    /\ spc' = "done"
    /\ UNCHANGED <<calls, refRanges>>

ScriptNext == (CollectScriptSetupRanges \/ GenerateScript) /\ UNCHANGED <<ivars, mvars, lvars, gvars, fvars>>

SpecScript == ScriptInit /\ [][ScriptNext]_vars

Range(f) == {f[i] : i \in DOMAIN f}

\* C6: a useTemplateRef call with an explicit type argument is emitted verbatim
\* with no narrowing cast (no `as Readonly<`, no `__VLS_TemplateRefs[...]`); a
\* call with no type argument is wrapped in `as Readonly<ShallowRef<...>>`
\* against the generated ref-lookup type keyed by the ref's name.
C6_UseTemplateRefCast ==
    spc = "done" =>
        /\ Len(scodes) = Len(calls)
        /\ \A i \in DOMAIN calls :
              IF calls[i].typeArg # ""
              THEN /\ scodes[i] = CallText(calls[i])
                   /\ Contains(scodes[i], <<"useTemplateRef", "<", calls[i].typeArg, ">">>)
                   /\ "as" \notin Range(scodes[i])
                   /\ "Readonly<" \notin Range(scodes[i])
                   /\ "__VLS_TemplateRefs[" \notin Range(scodes[i])
              ELSE /\ Contains(scodes[i], CallText(calls[i]) \o <<"as", "Readonly<", "ShallowRef<">>)
                   /\ Contains(scodes[i], <<"__VLS_TemplateRefs[", calls[i].name, "]">>)

\* a typed and an untyped call of the same ref name in one script
C6_Witness ==
    /\ spc = "done"
    /\ \E i \in DOMAIN calls, j \in DOMAIN calls :
          /\ calls[i].typeArg # "" /\ calls[j].typeArg = ""
          /\ calls[i].name = calls[j].name
          /\ "Readonly<" \in Range(scodes[j])
          /\ "Readonly<" \notin Range(scodes[i])


(***************************************************************************)
(* Import / export scanner.  A statement of the script is given by its     *)
(* form and module specifier; the scanner reads its tokens.                *)
(***************************************************************************)
MaxStatements == 2

Specifiers == {"./components", "./prose", "./foo"}

ModuleForms == {"import", "importBare", "exportNamed", "exportDefault", "exportStar", "exportStarAs"}

LocalForms == {"exportLocal", "const"}

Statements ==
    [form : ModuleForms, spec : Specifiers] \cup [form : LocalForms, spec : {""}]

Tok(t, v) == [t |-> t, v |-> v]

\* the text of one statement, as tokens
StatementText(st) ==
    CASE st.form = "import" ->
            <<Tok("kw", "import"), Tok("p", "{"), Tok("id", "foo"), Tok("p", "}"),
              Tok("kw", "from"), Tok("str", st.spec)>>
      [] st.form = "importBare" -> <<Tok("kw", "import"), Tok("str", st.spec)>>
      [] st.form = "exportNamed" ->
            <<Tok("kw", "export"), Tok("p", "{"), Tok("id", "baz"), Tok("p", "}"),
              Tok("kw", "from"), Tok("str", st.spec)>>
      [] st.form = "exportDefault" ->
            <<Tok("kw", "export"), Tok("p", "{"), Tok("kw", "default"), Tok("p", "}"),
              Tok("kw", "from"), Tok("str", st.spec)>>
      [] st.form = "exportStar" ->
            <<Tok("kw", "export"), Tok("p", "*"), Tok("kw", "from"), Tok("str", st.spec)>>
      [] st.form = "exportStarAs" ->
            <<Tok("kw", "export"), Tok("p", "*"), Tok("kw", "as"), Tok("id", "prose"),
              Tok("kw", "from"), Tok("str", st.spec)>>
      [] st.form = "exportLocal" ->
            <<Tok("kw", "export"), Tok("p", "{"), Tok("id", "baz"), Tok("p", "}")>>
      [] st.form = "const" ->
            <<Tok("kw", "const"), Tok("id", "x"), Tok("p", "="), Tok("str", "./x")>>

\* mutant: only `export { ... } from` is recognized among the re-exports
scanStatementNoStar(toks) ==
    LET n == Len(toks) IN
    IF toks[1] = Tok("kw", "import") /\ toks[n].t = "str"
    THEN <<toks[n].v>>
    ELSE IF /\ toks[1] = Tok("kw", "export")
            /\ toks[2] = Tok("p", "{")
            /\ n >= 3
            /\ toks[n - 1] = Tok("kw", "from")
            /\ toks[n].t = "str"
         THEN <<toks[n].v>>
         ELSE <<>>

\* the module specifier a statement refers to, if any
scanStatement(toks) ==
    LET n == Len(toks) IN
    IF toks[1] = Tok("kw", "import") /\ toks[n].t = "str"
    THEN <<toks[n].v>>
    ELSE IF /\ toks[1] = Tok("kw", "export")
            /\ n >= 3
            /\ toks[n - 1] = Tok("kw", "from")
            /\ toks[n].t = "str"
         THEN <<toks[n].v>>
         ELSE <<>>

RECURSIVE scanImports(_, _)
scanImports(lines, acc) ==
    IF lines = <<>> THEN acc
    ELSE LET found == scanStatement(Head(lines)) IN
         scanImports(Tail(lines),
                     IF found = <<>> \/ found[1] \in {acc[i] : i \in DOMAIN acc}
                     THEN acc ELSE acc \o found)

ScanInit ==
    /\ InterpIdle /\ ScriptIdle /\ LoopIdle /\ GenerateIdle
    /\ script \in SeqsUpTo(Statements, MaxStatements)
    /\ imports = <<>>
    /\ mpc = "start"
    /\ FileIdle

CreateSourceFile ==
    /\ mpc = "start"
    /\ imports' = scanImports([i \in DOMAIN script |-> StatementText(script[i])], <<>>)
    /\ mpc' = "done"
    /\ UNCHANGED script

ScanNext == CreateSourceFile /\ UNCHANGED <<ivars, svars, lvars, gvars, fvars>>

SpecScan == ScanInit /\ [][ScanNext]_vars

\* C7: the import list holds the module specifier of every plain import, every
\* named or default re-export, every `export * from` and every
\* `export * as ns from`, in any mixture of statements.
C7_ImportsAndReExports ==
    mpc = "done" =>
        \A i \in DOMAIN script :
            script[i].form \in ModuleForms => script[i].spec \in Range(imports)

\* an `export * as` next to a plain import of another module
C7_Witness ==
    /\ mpc = "done"
    /\ \E i \in DOMAIN script, j \in DOMAIN script :
          /\ script[i].form = "exportStarAs" /\ script[j].form = "import"
          /\ script[i].spec # script[j].spec
    /\ Len(imports) = 2


(***************************************************************************)
(* Template walk: iteration directives and the scope stack.  The walker    *)
(* enters and leaves nodes in document order; `path` is its recursion,     *)
(* `scope` the stack of bindings it pushed.                                *)
(***************************************************************************)
MaxDepth == 3

\* the names iteration directives bind
LoopVars == {"foo", "bar"}

ForFrames == [for : {TRUE}, item : LoopVars, index : LoopVars \cup {""}]

PlainFrame == [for |-> FALSE, item |-> "", index |-> ""]

\* the bindings an iteration directive introduces: item and optional index
forBindings(node) ==
    IF node.for THEN {node.item} \cup ({node.index} \ {""}) ELSE {}

pushScope(stack, names) == Append(stack, names)

\* mutant: leaving a loop deletes its names from the visible bindings
popScopeDelete(stack) ==
    [i \in 1..(Len(stack) - 1) |-> stack[i] \ stack[Len(stack)]]

popScope(stack) == SubSeq(stack, 1, Len(stack) - 1)

\* the loop-introduced bindings visible at the current node
visibleLocals(stack) == UNION {stack[i] : i \in DOMAIN stack}

LoopInit ==
    /\ InterpIdle /\ ScriptIdle /\ ScanIdle /\ GenerateIdle
    /\ path = <<>>
    /\ scope = <<>>
    /\ lastVisit = NoVisit
    /\ exited = NoFrame
    /\ FileIdle

\* an element carrying an iteration directive: its bindings hold in its subtree
EnterFor(node) ==
    /\ Len(path) < MaxDepth
    /\ path' = Append(path, node)
    /\ scope' = pushScope(scope, forBindings(node))
    /\ lastVisit' = NoVisit
    /\ exited' = NoFrame

\* an element without iteration directive
EnterElement ==
    /\ Len(path) < MaxDepth
    /\ path' = Append(path, PlainFrame)
    /\ lastVisit' = NoVisit
    /\ exited' = NoFrame
    /\ UNCHANGED scope

\* the subtree of the current node is finished
ExitNode ==
    /\ path # <<>>
    /\ scope' = IF path[Len(path)].for THEN popScope(scope) ELSE scope
    /\ exited' = path[Len(path)]
    /\ path' = SubSeq(path, 1, Len(path) - 1)
    /\ lastVisit' = NoVisit

\* an attribute / interpolation of the current node mentions `name`
VisitExpression(name) ==
    /\ lastVisit' = [name |-> name,
                     pre |-> generateInterpolation(Identifier(name), visibleLocals(scope))[1].pre]
    /\ UNCHANGED <<path, scope, exited>>

LoopNext ==
    /\ \/ \E node \in ForFrames : EnterFor(node)
       \/ EnterElement
       \/ ExitNode
       \/ \E name \in Names : VisitExpression(name)
    /\ UNCHANGED <<ivars, svars, mvars, gvars, fvars>>

SpecLoop == LoopInit /\ [][LoopNext]_vars

\* the loop variables of the iteration directives enclosing the current node
EnclosingBindings == UNION {forBindings(path[i]) : i \in DOMAIN path}

\* C8: at every template node the visible loop-introduced bindings are exactly
\* the loop variables (item, optional index) of the enclosing iteration
\* directives, so a loop variable is local inside its body only, sibling loops
\* do not interfere, and a name reused by an inner loop is still bound in the
\* outer body after the inner loop is left.
C8_LoopScoping ==
    /\ visibleLocals(scope) = EnclosingBindings
    /\ Len(scope) = Cardinality({i \in DOMAIN path : path[i].for})
    /\ lastVisit # NoVisit => (lastVisit.pre <=> lastVisit.name \notin EnclosingBindings)

\* after an inner loop over `foo` is left, `foo` of the outer loop is still bound
C8_Witness ==
    /\ exited.for
    /\ exited.item = "foo"
    /\ Len(path) = 1
    /\ path[1].for /\ path[1].item = "foo"
    /\ lastVisit = [name |-> "foo", pre |-> FALSE]


(***************************************************************************)
(* Directive comments.  A comment is given by its form, key and value; its *)
(* text is a sequence of lexemes, which is what parseLocalCompilerOptions  *)
(* reads.                                                                  *)
(***************************************************************************)
Lexeme(t, w, j) == [t |-> t, w |-> w, j |-> j]

Ws == Lexeme("ws", " ", Undefined)
At == Lexeme("at", "@", Undefined)
Word(w) == Lexeme("word", w, Undefined)
Json(j) == Lexeme("json", "", j)
Junk == Lexeme("junk", "{oops", Undefined)

\* the text of a comment
CommentText(c) ==
    CASE c.form = "directive" -> <<Ws, At, Word(c.key), Ws, Json(c.value), Ws>>
      [] c.form = "tight" -> <<At, Word(c.key), Ws, Json(c.value)>>
      [] c.form = "prose" -> <<Ws, Word("see"), Ws, At, Word(c.key), Ws, Json(c.value)>>
      [] c.form = "noValue" -> <<Ws, At, Word(c.key)>>
      [] c.form = "badJson" -> <<Ws, At, Word(c.key), Ws, Junk>>
      [] c.form = "trailing" -> <<Ws, At, Word(c.key), Ws, Json(c.value), Ws, Word("x")>>

RECURSIVE SkipWs(_)
SkipWs(text) ==
    IF text # <<>> /\ Head(text).t = "ws" THEN SkipWs(Tail(text)) ELSE text

RECURSIVE SkipWsEnd(_)
SkipWsEnd(text) ==
    IF text # <<>> /\ text[Len(text)].t = "ws"
    THEN SkipWsEnd(SubSeq(text, 1, Len(text) - 1)) ELSE text

\* syntaxRE = /^\s*@(?<key>\w+)\b(?<value>.+)/m
syntaxRE(text) ==
    LET rest == SkipWs(text) IN
    IF /\ Len(rest) >= 3
       /\ rest[1].t = "at"
       /\ rest[2].t = "word"
       /\ rest[3].t # "word"
    THEN [match |-> TRUE, key |-> rest[2].w, value |-> SubSeq(rest, 3, Len(rest))]
    ELSE [match |-> FALSE, key |-> "", value |-> <<>>]

\* JSON.parse: one JSON text, white space around it allowed, else SyntaxError
JSONparse(text) ==
    LET body == SkipWsEnd(SkipWs(text)) IN
    IF Len(body) = 1 /\ body[1].t = "json"
    THEN [ok |-> TRUE, value |-> body[1].j]
    ELSE [ok |-> FALSE, value |-> Undefined]

Entry(key, value) == [kind |-> "entry", key |-> key, value |-> value]
Skipped == [kind |-> "skip", key |-> "", value |-> Undefined]
Thrown == [kind |-> "throw", key |-> "", value |-> Undefined]

\* mutant: the SyntaxError of JSON.parse is not caught
parseCommentNoCatch(text) ==
    LET m == syntaxRE(text) IN
    IF m.match
    THEN LET parsed == JSONparse(m.value) IN
         IF parsed.ok THEN Entry(m.key, parsed.value) ELSE Thrown
    ELSE Skipped

\* the callback of comments.map: [key, value], or undefined
parseComment(text) ==
    LET m == syntaxRE(text) IN
    IF m.match
    THEN LET parsed == JSONparse(m.value) IN
         IF parsed.ok THEN Entry(m.key, parsed.value) ELSE Skipped
    ELSE Skipped

\* Object.fromEntries: a key keeps the place of its first entry and the value
\* of its last
RECURSIVE fromEntries(_, _)
fromEntries(entries, acc) ==
    IF entries = <<>> THEN acc
    ELSE LET e == Head(entries)
             at == {i \in DOMAIN acc : acc[i].key = e.key}
         IN  fromEntries(Tail(entries),
                 IF at = {} THEN Append(acc, e)
                 ELSE [i \in DOMAIN acc |-> IF i \in at THEN e ELSE acc[i]])

RECURSIVE FilterEntries(_)
FilterEntries(results) ==
    IF results = <<>> THEN <<>>
    ELSE (IF Head(results).kind = "entry" THEN <<Head(results)>> ELSE <<>>) \o
         FilterEntries(Tail(results))

parseLocalCompilerOptions(texts) ==
    LET results == [i \in DOMAIN texts |-> parseComment(texts[i])]
        entries == FilterEntries(results)
    IN  IF \E i \in DOMAIN results : results[i].kind = "throw"
        THEN [defined |-> FALSE, entries |-> <<>>, threw |-> TRUE]
        ELSE IF entries # <<>>
             THEN [defined |-> TRUE, entries |-> fromEntries(entries, <<>>), threw |-> FALSE]
             ELSE [defined |-> FALSE, entries |-> <<>>, threw |-> FALSE]


(***************************************************************************)
(* createCompilerOptionsResolver: the closure state is                     *)
(*   resolved, plugins, target, typesRoot                                  *)
(***************************************************************************)
StrictFlags ==
    {"strictVModel", "checkUnknownProps", "checkUnknownEvents",
     "checkUnknownDirectives", "checkUnknownComponents"}

Nullish(v) == v.t \in {"undefined", "null"}

\* the JavaScript `!!v`
Truthy(v) ==
    CASE v.t = "bool" -> v.b
      [] v.t = "num" -> v.n # 0
      [] v.t = "str" -> v.s # ""
      [] v.t \in {"arr", "obj"} -> TRUE
      [] OTHER -> FALSE

AbsolutePaths == {"/abs/types", "/proj/types"}

isAbsolute(p) == p \in AbsolutePaths

pathJoin(dir, p) == dir \o "/" \o p

\* ir.fileName and path.dirname(ir.fileName)
FileName == "/proj/src/App.vue"

RootDir == "/proj/src"

createCompilerOptionsResolver ==
    [created |-> TRUE, resolved |-> EmptyObject, plugins |-> <<>>,
     target |-> Undefined, typesRoot |-> Undefined]

\* case "plugins": require.resolve and require of every plugin path
RECURSIVE loadPlugins(_, _)
loadPlugins(paths, canResolve) ==
    IF paths = <<>> THEN <<>>
    ELSE (IF Head(paths) \in canResolve THEN <<Head(paths)>> ELSE <<>>) \o
         loadPlugins(Tail(paths), canResolve)

\* mutant: strictTemplates assigns the five flags instead of defaulting them
addKeyStrictAssign(r, key, value, rootDir, version, canResolve) ==
    CASE key = "target" ->
            [r EXCEPT !.target = IF value = JStr("auto") THEN version ELSE value]
      [] key = "strictTemplates" ->
            [r EXCEPT !.resolved =
                [k \in OptionKeys |->
                    IF k \in StrictFlags THEN JBool(Truthy(value)) ELSE r.resolved[k]]]
      [] key = "typesRoot" ->
            IF value # Undefined
            THEN [r EXCEPT !.typesRoot =
                    IF isAbsolute(value.s) THEN value ELSE JStr(pathJoin(rootDir, value.s))]
            ELSE r
      [] key = "plugins" ->
            [r EXCEPT !.plugins = r.plugins \o loadPlugins(value.a, canResolve),
                      !.resolved = [r.resolved EXCEPT ![key] = value]]
      [] OTHER ->
            [r EXCEPT !.resolved = [r.resolved EXCEPT ![key] = value]]

\* one iteration of `for (const key in options)`
addKey(r, key, value, rootDir, version, canResolve) ==
    CASE key = "target" ->
            [r EXCEPT !.target = IF value = JStr("auto") THEN version ELSE value]
      [] key = "strictTemplates" ->
            [r EXCEPT !.resolved =
                [k \in OptionKeys |->
                    IF k \in StrictFlags /\ Nullish(r.resolved[k])
                    THEN JBool(Truthy(value))
                    ELSE r.resolved[k]]]
      [] key = "typesRoot" ->
            IF value # Undefined
            THEN [r EXCEPT !.typesRoot =
                    IF isAbsolute(value.s) THEN value ELSE JStr(pathJoin(rootDir, value.s))]
            ELSE r
      [] key = "plugins" ->
            \* no break: falls through to the default case
            [r EXCEPT !.plugins = r.plugins \o loadPlugins(value.a, canResolve),
                      !.resolved = [r.resolved EXCEPT ![key] = value]]
      [] OTHER ->
            [r EXCEPT !.resolved = [r.resolved EXCEPT ![key] = value]]

RECURSIVE addKeys(_, _, _, _, _)
addKeys(r, entries, rootDir, version, canResolve) ==
    IF entries = <<>> THEN r
    ELSE addKeys(addKey(r, Head(entries).key, Head(entries).value, rootDir, version, canResolve),
                 Tail(entries), rootDir, version, canResolve)

add(r, entries, rootDir, version, canResolve) ==
    LET after == addKeys(r, entries, rootDir, version, canResolve) IN
    IF \A i \in DOMAIN entries : entries[i].key # "target"
    THEN [after EXCEPT !.target = IF Nullish(after.target) THEN version ELSE after.target]
    ELSE after

\* hyphenateTag of ./shared, on the tag names of the model
hyphenateTag(tag) ==
    CASE tag = "Transition" -> "transition"
      [] tag = "KeepAlive" -> "keep-alive"
      [] tag = "MyComp" -> "my-comp"
      [] OTHER -> tag

\* camelize of @vue/shared, on the property names of the model
camelize(name) ==
    CASE name = "model-value" -> "modelValue"
      [] OTHER -> name

\* { ...a, ...b } for two object values (a nullish operand spreads nothing)
spreadObjects(a, b) ==
    LET ao == IF a.t = "obj" THEN a.o ELSE {}
        bo == IF b.t = "obj" THEN b.o ELSE {}
    IN  {pr \in ao : \A q \in bo : q[1] # pr[1]} \cup bo

\* resolve(defaults), called with an explicit defaults object
resolve(r, defaults) ==
    LET res == r.resolved
        names == defaults["fallthroughComponentNames"].a \o
                 (IF Nullish(res["fallthroughComponentNames"]) THEN <<>>
                  ELSE res["fallthroughComponentNames"].a)
        model == IF Nullish(res["experimentalModelPropName"])
                 THEN defaults["experimentalModelPropName"]
                 ELSE res["experimentalModelPropName"]
    IN  [k \in OptionKeys |->
            CASE k = "plugins" -> JArr(r.plugins)
              [] k = "macros" -> JObj(spreadObjects(defaults[k], res[k]))
              [] k = "composables" -> JObj(spreadObjects(defaults[k], res[k]))
              [] k = "fallthroughComponentNames" ->
                    JArr([i \in DOMAIN names |-> hyphenateTag(names[i])])
              [] k = "experimentalModelPropName" ->
                    JObj({<<camelize(pr[1]), pr[2]>> : pr \in model.o})
              [] OTHER -> IF res[k] # Undefined THEN res[k] ELSE defaults[k]]


(***************************************************************************)
(* generate: the vueCompilerOptions region.                                *)
(***************************************************************************)
MaxComments == 2

\* the longest component name, in characters
MaxNameLen == 4

\* the number of generate calls a caller makes in a row
MaxGenerateCalls == 3

DirectiveValues ==
    [target |-> {JNum(33), JStr("auto")},
     typesRoot |-> {JStr("types"), JStr("/abs/types")},
     strictTemplates |-> {JBool(TRUE), JBool(FALSE)},
     strictVModel |-> {JBool(FALSE), JNull},
     checkUnknownProps |-> {JBool(TRUE)},
     lib |-> {JStr("vue-lite"), JStr("vue2")},
     plugins |-> {JArr(<<"./my-plugin">>)},
     macros |-> {JObj({<<"defineProps", "myProps">>})},
     fallthroughComponentNames |-> {JArr(<<"MyComp">>)},
     experimentalModelPropName |-> {JObj({<<"model-value", "input">>})}]

DirectiveKeys == DOMAIN DirectiveValues

Comment(form, key, value) == [form |-> form, key |-> key, value |-> value]

WellFormed == {"directive", "tight"}

Comments ==
    UNION {{Comment("directive", k, v) : v \in DirectiveValues[k]} : k \in DirectiveKeys}
    \cup {Comment(f, "lib", JStr("vue-lite")) :
            f \in {"tight", "prose", "noValue", "badJson", "trailing"}}

GlobalDefaults ==
    [k \in OptionKeys |->
        CASE k = "target" -> JNum(35)
          [] k = "typesRoot" -> JStr("/proj/types")
          [] k = "lib" -> JStr("vue")
          [] k = "plugins" -> JArr(<<>>)
          [] k = "macros" -> JObj({<<"defineProps", "defineProps">>, <<"defineSlots", "defineSlots">>})
          [] k = "composables" -> JObj({<<"useAttrs", "useAttrs">>})
          [] k = "fallthroughComponentNames" -> JArr(<<"Transition", "KeepAlive">>)
          [] k = "experimentalModelPropName" -> JObj({<<"value", "input">>})
          [] k = "strictTemplates" -> Undefined
          [] OTHER -> JBool(FALSE)]

GlobalProject ==
    [GlobalDefaults EXCEPT !["plugins"] = JArr(<<"vue-builtin">>),
                           !["fallthroughComponentNames"] = JArr(<<"transition">>),
                           !["strictVModel"] = JBool(TRUE)]

GlobalOptionObjects == {GlobalDefaults, GlobalProject}

PluginPaths == {"./my-plugin"}

GenerateInit ==
    /\ InterpIdle /\ ScriptIdle /\ ScanIdle /\ LoopIdle
    /\ comments \in SeqsUpTo(Comments, MaxComments)
    /\ globalOptions \in GlobalOptionObjects
    /\ vueVersion \in {Undefined, JNum(34)}
    /\ resolvable \in SUBSET PluginPaths
    /\ localOptions = NoOptions
    /\ resolver = NoResolver
    /\ effective = globalOptions
    /\ gpc = "start"
    /\ FileIdle

\* const options = parseLocalCompilerOptions(ir.comments)
ParseLocalOptions ==
    /\ gpc = "start"
    /\ LET options == parseLocalCompilerOptions([i \in DOMAIN comments |-> CommentText(comments[i])])
       IN  /\ localOptions' = options
           /\ gpc' = IF options.threw THEN "error"
                     ELSE IF options.defined THEN "parsed" ELSE "done"
    /\ UNCHANGED <<comments, globalOptions, vueVersion, resolvable, resolver, effective>>

\* mutant: one resolver, created outside generate, serves every call
AddLocalOptionsShared ==
    /\ gpc = "parsed"
    /\ resolver' = add(IF resolver.created THEN resolver ELSE createCompilerOptionsResolver,
                       localOptions.entries, RootDir, vueVersion, resolvable)
    /\ gpc' = "added"
    /\ UNCHANGED <<comments, globalOptions, vueVersion, resolvable, localOptions, effective>>

\* const resolver = createCompilerOptionsResolver(); resolver.add(options, dirname)
AddLocalOptions ==
    /\ gpc = "parsed"
    /\ resolver' = add(createCompilerOptionsResolver, localOptions.entries,
                       RootDir, vueVersion, resolvable)
    /\ gpc' = "added"
    /\ UNCHANGED <<comments, globalOptions, vueVersion, resolvable, localOptions, effective>>

\* vueCompilerOptions = resolver.resolve(vueCompilerOptions)
ResolveOptions ==
    /\ gpc = "added"
    /\ effective' = resolve(resolver, effective)
    /\ gpc' = "done"
    /\ UNCHANGED <<comments, globalOptions, vueVersion, resolvable, localOptions, resolver>>

GenerateNext ==
    /\ ParseLocalOptions \/ AddLocalOptions \/ ResolveOptions
    /\ UNCHANGED <<ivars, svars, mvars, lvars, fvars>>

SpecGenerate == GenerateInit /\ [][GenerateNext]_vars

\* ---------------------------------------------------------------------------
\* generate, after the options region: ranges, setup scope, template and style
\* generation, exposure, script generation (part_001:231-373).
\* Strings are sequences of characters, so that slicing, camelize and
\* capitalize act on them as the library functions do.

\* an optional value: <<>> for undefined, <<v>> for v
Some(v) == <<v>>

UpperCase ==
    [c \in {"a", "b", "A", "B", "-", "$", "'", ";"} |->
        CASE c = "a" -> "A" [] c = "b" -> "B" [] OTHER -> c]

LowerCase ==
    [c \in {"a", "b", "A", "B", "-", "$", "'", ";"} |->
        CASE c = "A" -> "a" [] c = "B" -> "b" [] OTHER -> c]

\* \w of a regular expression
WordChars == {"a", "b", "A", "B"}

\* str.replace(/-(\w)/g, (_, c) => c.toUpperCase())
RECURSIVE camelizeChars(_)
camelizeChars(str) ==
    IF str = <<>> THEN <<>>
    ELSE IF Len(str) >= 2 /\ str[1] = "-" /\ str[2] \in WordChars
         THEN <<UpperCase[str[2]]>> \o camelizeChars(SubSeq(str, 3, Len(str)))
         ELSE <<str[1]>> \o camelizeChars(Tail(str))

\* str.charAt(0).toUpperCase() + str.slice(1)
capitalize(str) ==
    IF str = <<>> THEN <<>> ELSE <<UpperCase[str[1]]>> \o Tail(str)

toLowerCase(str) == [i \in DOMAIN str |-> LowerCase[str[i]]]

\* content.slice(start, end), offsets counted from 0
slice(content, start, end) == SubSeq(content, start + 1, end)

\* the top-level items of a block's text: its bindings, then the quoted name option
Items(decl) ==
    decl.bindings \o
    (IF decl.name # <<>> THEN << <<"'">> \o decl.name[1] \o <<"'">> >> ELSE <<>>)

\* the text of a block: every item followed by a separator
RECURSIVE PrintItems(_)
PrintItems(items) ==
    IF items = <<>> THEN <<>>
    ELSE items[1] \o <<";">> \o PrintItems(Tail(items))

BlockContent(decl) == PrintItems(Items(decl))

Block(decl, malformed) ==
    [exists |-> TRUE, malformed |-> malformed, content |-> BlockContent(decl), decl |-> decl]

RECURSIVE OffsetOf(_, _)
OffsetOf(items, i) ==
    IF i = 1 THEN 0 ELSE OffsetOf(items, i - 1) + Len(items[i - 1]) + 1

RangeOf(items, i) ==
    [start |-> OffsetOf(items, i), end |-> OffsetOf(items, i) + Len(items[i])]

\* the collectors fail on content that does not parse
Malformed(block) == block.exists /\ block.malformed

\* the ranges of the bindings, of those among them that are components, and
\* the default export's options
collectScriptRanges(block) ==
    LET items == Items(block.decl)
        all == [i \in DOMAIN block.decl.bindings |-> RangeOf(items, i)]
        IsComponent(r) ==
            slice(block.content, r.start, r.end) \in Range(block.decl.components)
    IN  [NoRanges EXCEPT
            !.defined = TRUE,
            !.bindings = all,
            !.components = SelectSeq(all, IsComponent),
            !.name = IF block.decl.name # <<>>
                     THEN Some(RangeOf(items, Len(block.decl.bindings) + 1))
                     ELSE <<>>,
            !.inheritAttrs = block.decl.inheritAttrs]

\* as for the script block, with the macro calls of script setup: defineOptions,
\* defineProps destructuring, useTemplateRef
collectScriptSetupRanges(block, vueCompilerOptions) ==
    LET items == Items(block.decl)
        all == [i \in DOMAIN block.decl.bindings |-> RangeOf(items, i)]
        IsComponent(r) ==
            slice(block.content, r.start, r.end) \in Range(block.decl.components)
    IN  [NoRanges EXCEPT
            !.defined = TRUE,
            !.bindings = all,
            !.components = SelectSeq(all, IsComponent),
            !.optionsName = block.decl.name,
            !.inheritAttrs = block.decl.inheritAttrs,
            !.destructured = block.decl.destructured,
            !.destructuredRest = block.decl.destructuredRest,
            !.useTemplateRef = block.decl.refs]

\* content.slice(range.start, range.end) for every range
Slices(content, rs) == {slice(content, rs[i].start, rs[i].end) : i \in DOMAIN rs}

\* mutant: the script block's components are added whether or not script setup exists
setupConstsFlat(i, r) ==
    (IF i.scriptSetup.exists /\ r.scriptSetup.defined
     THEN Slices(i.scriptSetup.content, r.scriptSetup.components)
     ELSE {})
    \cup
    (IF i.script.exists /\ r.script.defined
     THEN Slices(i.script.content, r.script.components)
     ELSE {})
    \cup
    (IF r.scriptSetup.destructured # <<>> THEN r.scriptSetup.destructured[1] ELSE {})
    \cup
    (IF r.scriptSetup.destructuredRest # <<>> THEN {r.scriptSetup.destructuredRest[1]} ELSE {})

\* #region setupConsts
setupConsts(i, r) ==
    (IF i.scriptSetup.exists /\ r.scriptSetup.defined
     THEN Slices(i.scriptSetup.content, r.scriptSetup.components)
          \cup
          (IF i.script.exists /\ r.script.defined
           THEN Slices(i.script.content, r.script.components)
           ELSE {})
     ELSE {})
    \cup
    (IF r.scriptSetup.destructured # <<>> THEN r.scriptSetup.destructured[1] ELSE {})
    \cup
    (IF r.scriptSetup.destructuredRest # <<>> THEN {r.scriptSetup.destructuredRest[1]} ELSE {})

\* #region setupRefs
setupRefs(r) ==
    {e[1] : e \in {x \in Range(r.scriptSetup.useTemplateRef) : x # <<>>}}

\* mutant: `||` in place of `??`
inheritAttrsOr(r) ==
    (IF r.scriptSetup.inheritAttrs = "true"
     THEN r.scriptSetup.inheritAttrs
     ELSE r.script.inheritAttrs) # "false"

\* #region inheritAttrs
inheritAttrs(r) ==
    (IF r.scriptSetup.inheritAttrs # "undefined"
     THEN r.scriptSetup.inheritAttrs
     ELSE r.script.inheritAttrs) # "false"

\* the directory and extension parts a file name is made of
DirParts == {"/proj/src/"}
ExtParts == {".vue"}

\* path.extname
extname(fileName) ==
    IF fileName # <<>> /\ fileName[Len(fileName)] \in ExtParts
    THEN <<fileName[Len(fileName)]>> ELSE <<>>

RECURSIVE DropDirs(_)
DropDirs(fileName) ==
    IF fileName # <<>> /\ fileName[1] \in DirParts THEN DropDirs(Tail(fileName)) ELSE fileName

\* path.basename(fileName, ext)
basename(fileName, ext) ==
    LET base == DropDirs(fileName)
    IN  IF ext # <<>> /\ base # <<>> /\ <<base[Len(base)]>> = ext
        THEN SubSeq(base, 1, Len(base) - 1) ELSE base

\* mutant: script setup's name is preferred to the script block's
rawComponentNameSetupFirst(i, r) ==
    IF i.scriptSetup.exists /\ r.scriptSetup.optionsName # <<>>
                            /\ r.scriptSetup.optionsName[1] # <<>>
    THEN r.scriptSetup.optionsName[1]
    ELSE IF i.script.exists /\ r.script.name # <<>>
    THEN slice(i.script.content, r.script.name[1].start + 1, r.script.name[1].end - 1)
    ELSE basename(i.fileName, extname(i.fileName))

\* #region componentName, before normalization
rawComponentName(i, r) ==
    IF i.script.exists /\ r.script.name # <<>>
    THEN slice(i.script.content, r.script.name[1].start + 1, r.script.name[1].end - 1)
    ELSE IF i.scriptSetup.exists /\ r.scriptSetup.optionsName # <<>>
                                 /\ r.scriptSetup.optionsName[1] # <<>>
    THEN r.scriptSetup.optionsName[1]
    ELSE basename(i.fileName, extname(i.fileName))

\* componentName = capitalize(camelize(componentName))
normalizeName(name) == capitalize(camelizeChars(name))

componentName(i, r) == normalizeName(rawComponentName(i, r))

\* the template generator reports the names its expressions read through the
\* context and the dollar names it used
generateTemplate(options) ==
    [defined |-> TRUE,
     accessedVars |-> options.template.accesses,
     dollarVars |-> options.template.dollars,
     setupConsts |-> options.setupConsts,
     setupRefs |-> options.setupRefs,
     componentName |-> options.componentName,
     inheritAttrs |-> options.inheritAttrs]

generateStyle(options) ==
    [defined |-> TRUE, setupConsts |-> options.setupConsts, setupRefs |-> options.setupRefs]

\* #region declaredVariables
declaredVariables(i, r) ==
    (IF i.scriptSetup.exists /\ r.scriptSetup.defined
     THEN Slices(i.scriptSetup.content, r.scriptSetup.bindings) ELSE {})
    \cup
    (IF i.script.exists /\ r.script.defined
     THEN Slices(i.script.content, r.script.bindings) ELSE {})

\* the spellings of a tag under which a binding is looked up
componentSpellings(tag) == {camelizeChars(tag), capitalize(camelizeChars(tag))}

\* mutant: every candidate name is exposed, declared or not
setupExposedAll(declared, generatedTemplate, template) ==
    generatedTemplate.accessedVars \cup generatedTemplate.dollarVars
    \cup UNION {componentSpellings(template.components[j]) : j \in DOMAIN template.components}

\* #region setupExposed
setupExposed(declared, generatedTemplate, template) ==
    {name \in generatedTemplate.accessedVars \cup generatedTemplate.dollarVars :
        name \in declared}
    \cup
    {name \in UNION {componentSpellings(template.components[j]) :
                        j \in DOMAIN template.components} :
        name \in declared}

\* mutant: a collector's failure is caught and the block counts as having no ranges
CollectRangesCaught ==
    /\ gpc = "done"
    /\ ranges' =
         [script |-> IF ir.script.exists /\ ~Malformed(ir.script)
                     THEN collectScriptRanges(ir.script) ELSE NoRanges,
          scriptSetup |-> IF ir.scriptSetup.exists /\ ~Malformed(ir.scriptSetup)
                          THEN collectScriptSetupRanges(ir.scriptSetup, effective)
                          ELSE NoRanges]
    /\ gpc' = "ranges"
    /\ UNCHANGED <<gvarsButPc, ir, derived, generated, exposure, result, history>>

\* #region scriptRanges, #region scriptSetupRanges: a collector that fails
\* throws out of generate
CollectRanges ==
    /\ gpc = "done"
    /\ IF Malformed(ir.script)
       THEN gpc' = "failed" /\ UNCHANGED ranges
       ELSE LET scriptRanges ==
                    IF ir.script.exists THEN collectScriptRanges(ir.script) ELSE NoRanges
            IN  IF Malformed(ir.scriptSetup)
                THEN /\ gpc' = "failed"
                     /\ ranges' = [ranges EXCEPT !.script = scriptRanges]
                ELSE /\ gpc' = "ranges"
                     /\ ranges' =
                          [script |-> scriptRanges,
                           scriptSetup |->
                              IF ir.scriptSetup.exists
                              THEN collectScriptSetupRanges(ir.scriptSetup, effective)
                              ELSE NoRanges]
    /\ UNCHANGED <<gvarsButPc, ir, derived, generated, exposure, result, history>>

\* #region setupConsts .. #region componentName
DeriveSetupScope ==
    /\ gpc = "ranges"
    /\ derived' = [setupConsts |-> setupConsts(ir, ranges),
                   setupRefs |-> setupRefs(ranges),
                   inheritAttrs |-> inheritAttrs(ranges),
                   componentName |-> componentName(ir, ranges)]
    /\ gpc' = "derived"
    /\ UNCHANGED <<gvarsButPc, ir, ranges, generated, exposure, result, history>>

\* #region generatedTemplate, #region generatedStyle
GenerateTemplateAndStyle ==
    /\ gpc = "derived"
    /\ generated' =
         [template |->
            IF ir.template.exists /\ ~Truthy(effective["skipTemplateCodegen"])
            THEN generateTemplate([template |-> ir.template,
                                   setupConsts |-> derived.setupConsts,
                                   setupRefs |-> derived.setupRefs,
                                   componentName |-> derived.componentName,
                                   inheritAttrs |-> derived.inheritAttrs])
            ELSE NoGenerated.template,
          style |->
            IF ir.styles > 0 /\ ~Truthy(effective["skipTemplateCodegen"])
            THEN generateStyle([setupConsts |-> derived.setupConsts,
                                setupRefs |-> derived.setupRefs])
            ELSE NoGenerated.style]
    /\ gpc' = "generated"
    /\ UNCHANGED <<gvarsButPc, ir, ranges, derived, exposure, result, history>>

\* #region declaredVariables, #region setupExposed
ExposeBindings ==
    /\ gpc = "generated"
    /\ LET declared == declaredVariables(ir, ranges)
       IN  exposure' = [declaredVariables |-> declared,
                        setupExposed |-> setupExposed(declared, generated.template, ir.template)]
    /\ gpc' = "exposed"
    /\ UNCHANGED <<gvarsButPc, ir, ranges, derived, generated, result, history>>

\* #region generatedScript, return
CallGenerateScript ==
    /\ gpc = "exposed"
    /\ result' = [returned |-> TRUE, scriptGenerated |-> TRUE,
                  exposed |-> exposure.setupExposed]
    /\ gpc' = "returned"
    /\ UNCHANGED <<gvarsButPc, ir, ranges, derived, generated, exposure, history>>

\* names of bindings, and tags of components, as they are spelled in a file
BindingA == <<"a">>
BindingCamel == <<"a", "B">>
BindingPascal == <<"A", "B">>
BindingDollar == <<"$", "a">>
BindingRest == <<"b">>
TagKebab == <<"a", "-", "b">>
TagLower == <<"a", "b">>

\* a file name: directory, base name, extension
FileNameOf(base) == <<"/proj/src/">> \o base \o <<".vue">>

\* script blocks with bindings, some of which are components
ScriptBlocks ==
    {Block(Decl(bc[1], bc[2], <<>>, "undefined", <<>>, <<>>, <<>>), FALSE) :
        bc \in {<< <<>>, <<>> >>,
                << <<BindingA>>, <<>> >>,
                << <<BindingA, BindingPascal>>, <<BindingPascal>> >>}}

\* script setup blocks with bindings, destructured props and template refs
ScriptSetupBlocks ==
    {Block(Decl(bc[1], bc[2], <<>>, "undefined", dr[1], dr[2], refs), FALSE) :
        bc \in {<< <<>>, <<>> >>,
                << <<BindingCamel, BindingDollar>>, <<>> >>,
                << <<BindingA, BindingPascal>>, <<BindingPascal>> >>},
        dr \in {<< <<>>, <<>> >>,
                << Some({BindingA}), <<>> >>,
                << Some({BindingCamel}), Some(BindingRest) >>},
        refs \in {<<>>, << Some(BindingCamel), <<>> >>}}

\* a block whose content does not parse
MalformedBlock == Block(Decl(<<BindingA>>, <<>>, <<>>, "undefined", <<>>, <<>>, <<>>), TRUE)

Templates ==
    {[exists |-> TRUE, components |-> c, accesses |-> a, dollars |-> d] :
        c \in {<<>>, <<TagKebab>>, <<TagLower>>},
        a \in {{}, {BindingA, BindingPascal}},
        d \in {{}, {BindingDollar}}}

SkipTemplateCodegen == Comment("directive", "skipTemplateCodegen", JBool(TRUE))

\* files that differ in their bindings
BindingFiles ==
    /\ comments \in {<<>>, <<SkipTemplateCodegen>>}
    /\ ir \in [fileName : {FileNameOf(TagLower)},
               script : {NoBlock, MalformedBlock} \cup ScriptBlocks,
               scriptSetup : {NoBlock, MalformedBlock} \cup ScriptSetupBlocks,
               template : {NoTemplate} \cup Templates,
               styles : {0, 1}]

InheritAttrsBlocks ==
    {NoBlock} \cup
    {Block(Decl(<<>>, <<>>, <<>>, v, <<>>, <<>>, <<>>), FALSE) :
        v \in {"undefined", "true", "false"}}

\* files that differ in their inheritAttrs options
InheritAttrsFiles ==
    /\ comments = <<>>
    /\ ir \in [fileName : {FileNameOf(TagLower)},
               script : InheritAttrsBlocks,
               scriptSetup : InheritAttrsBlocks,
               template : {[exists |-> TRUE, components |-> <<>>, accesses |-> {},
                            dollars |-> {}]},
               styles : {0}]

\* the names a component can be given: up to MaxNameLen characters
NameChars == {"a", "-"}
ComponentNames == SeqsUpTo(NameChars, MaxNameLen)

NamedBlocks(names) ==
    {Block(Decl(<<>>, <<>>, n, "undefined", <<>>, <<>>, <<>>), FALSE) : n \in names}

\* a block without a name option, or none at all
UnnamedBlocks == {NoBlock} \cup NamedBlocks({<<>>})

\* files that differ in the names of their blocks and in their base name
NamedFiles ==
    /\ comments = <<>>
    /\ \E blocks \in
            (NamedBlocks({Some(n) : n \in ComponentNames})
                \X (UnnamedBlocks \cup NamedBlocks({Some(BindingRest)})))
            \cup
            (UnnamedBlocks \X NamedBlocks({Some(n) : n \in ComponentNames})) :
        \E base \in {TagLower, <<"a", "-", "-", "a">>} :
            ir = [fileName |-> FileNameOf(base),
                  script |-> blocks[1], scriptSetup |-> blocks[2],
                  template |-> NoTemplate, styles |-> 0]

FileInit ==
    /\ InterpIdle /\ ScriptIdle /\ ScanIdle /\ LoopIdle
    /\ globalOptions = GlobalDefaults
    /\ vueVersion = Undefined
    /\ resolvable = {}
    /\ localOptions = NoOptions
    /\ resolver = NoResolver
    /\ effective = globalOptions
    /\ gpc = "start"
    /\ BindingFiles \/ InheritAttrsFiles \/ NamedFiles
    /\ ranges = NoRangesPair /\ derived = NoDerived /\ generated = NoGenerated
    /\ exposure = NoExposure /\ result = NoResult /\ history = <<>>

FileNext ==
    /\ \/ (ParseLocalOptions \/ AddLocalOptions \/ ResolveOptions) /\ UNCHANGED fvars
       \/ CollectRanges
       \/ DeriveSetupScope
       \/ GenerateTemplateAndStyle
       \/ ExposeBindings
       \/ CallGenerateScript
    /\ UNCHANGED <<ivars, svars, mvars, lvars>>

SpecFile == FileInit /\ [][FileNext]_vars


(***************************************************************************)
(* What the comments say, read off their form (not their text).            *)
(***************************************************************************)
ValidAt == {i \in DOMAIN comments : comments[i].form \in WellFormed}

\* the comment that is the last directive for key k
LastFor(k) ==
    {i \in ValidAt : comments[i].key = k /\ \A j \in ValidAt : (comments[j].key = k => j <= i)}

Directed(k) == LastFor(k) # {}

DirectiveValue(k) == comments[CHOOSE i \in LastFor(k) : TRUE].value

ScalarKeys == {"target", "typesRoot", "lib", "strictVModel"}

\* C9 as stated: with per-file directives, every scalar key set by a directive
\* (target and typesRoot included) has the directive's value, the last directive
\* for a key winning, and every array- or object-valued key is the global value
\* additively merged with the directive's value.
C9_Original ==
    (gpc = "done" /\ localOptions.defined) =>
        /\ \A k \in ScalarKeys :
              Directed(k) =>
                  \/ effective[k] = DirectiveValue(k)
                  \/ k = "target" /\ DirectiveValue(k) = JStr("auto") /\ effective[k] = vueVersion
                  \/ k = "typesRoot" /\ effective[k] = JStr(pathJoin(RootDir, DirectiveValue(k).s))
        /\ \A k \in {"macros", "composables", "experimentalModelPropName"} :
              Directed(k) =>
                  /\ \A pr \in DirectiveValue(k).o : <<camelize(pr[1]), pr[2]>> \in effective[k].o
                  /\ \A pr \in globalOptions[k].o :
                        (\A q \in DirectiveValue(k).o : q[1] # pr[1]) => pr \in effective[k].o
        /\ Directed("fallthroughComponentNames") =>
              Range(effective["fallthroughComponentNames"].a) =
                  {hyphenateTag(n) : n \in Range(globalOptions["fallthroughComponentNames"].a)
                                        \cup Range(DirectiveValue("fallthroughComponentNames").a)}
        /\ Directed("plugins") =>
              /\ Range(globalOptions["plugins"].a) \subseteq Range(effective["plugins"].a)
              /\ Range(DirectiveValue("plugins").a) \cap resolvable
                    \subseteq Range(effective["plugins"].a)

\* C10: a comment that does not match `@key value` or whose value is not valid
\* JSON is skipped without an error and without keeping the other comments'
\* directives from applying; with no valid directive parseLocalCompilerOptions
\* returns undefined and generate uses the global options unchanged.
C10_MalformedSkipped ==
    /\ gpc # "error"
    /\ ~localOptions.threw
    /\ gpc # "start" =>
          /\ localOptions.defined <=> ValidAt # {}
          /\ {localOptions.entries[i].key : i \in DOMAIN localOptions.entries} =
                {comments[i].key : i \in ValidAt}
          /\ \A i \in DOMAIN localOptions.entries :
                localOptions.entries[i].value = DirectiveValue(localOptions.entries[i].key)
    /\ (gpc = "done" /\ ValidAt = {}) =>
          /\ localOptions = NoOptions
          /\ ~resolver.created
          /\ effective = globalOptions
    /\ (gpc = "done" /\ ValidAt # {}) =>
          /\ resolver.created
          /\ Directed("lib") => effective["lib"] = DirectiveValue("lib")

\* a malformed comment before a valid directive: the directive still applies
C10_Witness ==
    /\ gpc = "done"
    /\ Len(comments) = 2
    /\ comments[1].form = "badJson"
    /\ comments[2] = Comment("directive", "lib", JStr("vue2"))
    /\ effective["lib"] = JStr("vue2")

\* only malformed comments: the global options are used
C10_WitnessNone ==
    /\ gpc = "done"
    /\ Len(comments) = 2
    /\ ValidAt = {}
    /\ effective = globalOptions



\* ---------------------------------------------------------------------------
\* A caller that calls generate several times in a row. The variables of one
\* call keep their contents until the next call assigns them.

\* the arguments of the call in progress
Arguments == [comments |-> comments, vueCompilerOptions |-> globalOptions, ir |-> ir]

\* what a finished call produced
Outcome ==
    IF gpc = "failed"
    THEN [failed |-> TRUE, options |-> localOptions, effective |-> effective,
          derived |-> NoDerived, generated |-> NoGenerated,
          exposure |-> NoExposure, result |-> NoResult]
    ELSE [failed |-> FALSE, options |-> localOptions, effective |-> effective,
          derived |-> derived, generated |-> generated,
          exposure |-> exposure, result |-> result]

NoOutcome ==
    [failed |-> FALSE, options |-> NoOptions, effective |-> EmptyObject,
     derived |-> NoDerived, generated |-> NoGenerated,
     exposure |-> NoExposure, result |-> NoResult]

CallComments ==
    {<<>>,
     <<Comment("directive", "strictTemplates", JBool(TRUE))>>,
     <<Comment("directive", "plugins", JArr(<<"./my-plugin">>))>>}

CallFiles ==
    {[fileName |-> FileNameOf(TagKebab),
      script |-> Block(Decl(<<BindingA, BindingPascal>>, <<BindingPascal>>, <<>>,
                            "false", <<>>, <<>>, <<>>), FALSE),
      scriptSetup |-> Block(Decl(<<BindingCamel>>, <<BindingCamel>>, <<>>, "undefined",
                                 Some({BindingA}), <<>>, <<Some(BindingCamel)>>), FALSE),
      template |-> [exists |-> TRUE, components |-> <<TagKebab>>,
                    accesses |-> {BindingA}, dollars |-> {}],
      styles |-> 1],
     [fileName |-> FileNameOf(TagLower),
      script |-> NoBlock,
      scriptSetup |-> MalformedBlock,
      template |-> NoTemplate,
      styles |-> 0]}

CallsInit ==
    /\ InterpIdle /\ ScriptIdle /\ ScanIdle /\ LoopIdle
    /\ comments \in CallComments
    /\ globalOptions \in GlobalOptionObjects
    /\ ir \in CallFiles
    /\ vueVersion = JNum(34)
    /\ resolvable = PluginPaths
    /\ localOptions = NoOptions
    /\ resolver = NoResolver
    /\ effective = globalOptions
    /\ gpc = "start"
    /\ ranges = NoRangesPair /\ derived = NoDerived /\ generated = NoGenerated
    /\ exposure = NoExposure /\ result = NoResult
    /\ history = <<[args |-> Arguments, outcome |-> NoOutcome]>>

\* the caller records what the call produced and calls generate again
CallAgain ==
    /\ gpc \in {"returned", "failed"}
    /\ Len(history) < MaxGenerateCalls
    /\ comments' \in CallComments
    /\ globalOptions' \in GlobalOptionObjects
    /\ ir' \in CallFiles
    /\ effective' = globalOptions'
    /\ gpc' = "start"
    /\ history' = Append([history EXCEPT ![Len(history)].outcome = Outcome],
                         [args |-> Arguments', outcome |-> NoOutcome])
    /\ UNCHANGED <<vueVersion, resolvable, localOptions, resolver,
                   ranges, derived, generated, exposure, result>>

CallsNext ==
    /\ \/ (ParseLocalOptions \/ AddLocalOptions \/ ResolveOptions) /\ UNCHANGED fvars
       \/ CollectRanges
       \/ DeriveSetupScope
       \/ GenerateTemplateAndStyle
       \/ ExposeBindings
       \/ CallGenerateScript
       \/ CallAgain
    /\ UNCHANGED <<ivars, svars, mvars, lvars>>

SpecCalls == CallsInit /\ [][CallsNext]_vars

\* the keys a directive names; strictTemplates stands for the five flags
NamedKeys ==
    {comments[i].key : i \in ValidAt} \cup
    (IF Directed("strictTemplates") THEN StrictFlags ELSE {})

\* C15 as stated: when directives override some keys, every option key that no
\* directive names, the loaded plugin list included, has in the effective
\* options the value it has in the global options object.
C15_Original ==
    (gpc = "done" /\ localOptions.defined) =>
        \A k \in OptionKeys \ NamedKeys :
            IF k = "fallthroughComponentNames"
            THEN effective[k].a =
                    [i \in DOMAIN globalOptions[k].a |-> hyphenateTag(globalOptions[k].a[i])]
            ELSE effective[k] = globalOptions[k]

\* C18 as stated: with strictTemplates and an individual strictness flag both
\* given, the flag resolves to the explicitly given value in either order, and
\* every flag not given resolves to the boolean value of strictTemplates.
C18_Original ==
    (gpc \in {"added", "done"} /\ Directed("strictTemplates")) =>
        \A f \in StrictFlags :
            resolver.resolved[f] =
                IF Directed(f) THEN DirectiveValue(f)
                ELSE JBool(Truthy(DirectiveValue("strictTemplates")))

\* C18 (amended): a flag given explicitly with a value other than null resolves
\* to that value whether it comes before or after strictTemplates, and every
\* flag not given resolves to the boolean value of strictTemplates.
C18_StrictTemplatesOrder ==
    (gpc \in {"added", "done"} /\ Directed("strictTemplates")) =>
        \A f \in StrictFlags :
            /\ (Directed(f) /\ ~Nullish(DirectiveValue(f))) =>
                  resolver.resolved[f] = DirectiveValue(f)
            /\ ~Directed(f) =>
                  resolver.resolved[f] = JBool(Truthy(DirectiveValue("strictTemplates")))

\* the flag is given before strictTemplates and keeps its value
C18_Witness ==
    /\ gpc = "done"
    /\ Len(comments) = 2
    /\ comments[1] = Comment("directive", "strictVModel", JBool(FALSE))
    /\ comments[2] = Comment("directive", "strictTemplates", JBool(TRUE))
    /\ resolver.resolved["strictVModel"] = JBool(FALSE)
    /\ resolver.resolved["checkUnknownProps"] = JBool(TRUE)


\* the bindings the blocks of the file declare
DeclaredBindings ==
    (IF ir.script.exists THEN Range(ir.script.decl.bindings) ELSE {})
    \cup (IF ir.scriptSetup.exists THEN Range(ir.scriptSetup.decl.bindings) ELSE {})

\* the components a block registers
Components(block) == IF block.exists THEN Range(block.decl.components) ELSE {}

Tags == Range(ir.template.components)

\* generate has computed setupExposed
Exposed == gpc \in {"exposed", "returned"}

\* C11 as stated: a declared binding is exposed iff it is a name the template
\* accessed, a dollar name, or a component tag name matched case-insensitively;
\* nothing that is not a declared binding is exposed.
C11_Original ==
    Exposed =>
        /\ \A name \in DeclaredBindings :
              name \in exposure.setupExposed <=>
                  \/ name \in generated.template.accessedVars
                  \/ name \in generated.template.dollarVars
                  \/ \E tag \in Tags :
                        toLowerCase(camelizeChars(tag)) = toLowerCase(name)
        /\ exposure.setupExposed \subseteq DeclaredBindings

\* C11 (amended): a declared binding is exposed iff it is a name the template
\* accessed, a dollar name, or the camelized or capitalized camelized spelling
\* of a component tag; nothing that is not a declared binding is exposed, and
\* the set computed is the one handed to script generation.
C11_ExposedBindings ==
    /\ Exposed =>
        /\ \A name \in DeclaredBindings :
              name \in exposure.setupExposed <=>
                  \/ name \in generated.template.accessedVars
                  \/ name \in generated.template.dollarVars
                  \/ \E tag \in Tags :
                        name = camelizeChars(tag) \/ name = capitalize(camelizeChars(tag))
        /\ exposure.setupExposed \subseteq DeclaredBindings
    /\ gpc = "returned" => result.exposed = exposure.setupExposed

\* a binding exposed through its tag, next to a binding the template did not
\* use and an accessed name that is not declared
C11_Witness ==
    /\ gpc = "returned"
    /\ ir.template.components = <<TagKebab>>
    /\ BindingCamel \in result.exposed
    /\ BindingDollar \in DeclaredBindings \ result.exposed
    /\ BindingA \in generated.template.accessedVars \ DeclaredBindings

\* generate has computed setupConsts and setupRefs
Derived == gpc \in {"derived", "generated", "exposed", "returned"}

\* destructured prop names, the rest name and the named template refs of script setup
SetupMacroNames ==
    IF ir.scriptSetup.exists
    THEN (IF ir.scriptSetup.decl.destructured # <<>>
          THEN ir.scriptSetup.decl.destructured[1] ELSE {})
         \cup
         (IF ir.scriptSetup.decl.destructuredRest # <<>>
          THEN {ir.scriptSetup.decl.destructuredRest[1]} ELSE {})
         \cup
         {e[1] : e \in {x \in Range(ir.scriptSetup.decl.refs) : x # <<>>}}
    ELSE {}

\* C12 as stated: the setup scope is the union of what the script block and the
\* script setup block contribute, the destructured prop names with the rest
\* name, and the template ref names; each block contributes whenever it exists.
C12_Original ==
    Derived =>
        derived.setupConsts \cup derived.setupRefs =
            Components(ir.script) \cup Components(ir.scriptSetup) \cup SetupMacroNames

\* C12 (amended): the setup scope is the union of what script setup contributes,
\* what the script block contributes when a script setup block exists too, the
\* destructured prop names with the rest name, and the template ref names; the
\* template and style generators are handed exactly these sets.
C12_SetupScope ==
    /\ Derived =>
        derived.setupConsts \cup derived.setupRefs =
            Components(ir.scriptSetup)
            \cup (IF ir.scriptSetup.exists THEN Components(ir.script) ELSE {})
            \cup SetupMacroNames
    /\ generated.template.defined =>
        /\ generated.template.setupConsts = derived.setupConsts
        /\ generated.template.setupRefs = derived.setupRefs
    /\ generated.style.defined =>
        /\ generated.style.setupConsts = derived.setupConsts
        /\ generated.style.setupRefs = derived.setupRefs

\* one component registered by both blocks, next to a destructured prop, the
\* rest name and a template ref, handed to both generators
C12_Witness ==
    /\ generated.template.defined /\ generated.style.defined
    /\ BindingPascal \in Components(ir.script) \cap Components(ir.scriptSetup)
    /\ generated.template.setupConsts = {BindingPascal, BindingCamel, BindingRest}
    /\ generated.style.setupRefs = {BindingCamel}

\* C14: when a collector fails on a malformed script or script setup block,
\* the call fails: nothing is derived, no generator runs, nothing is returned.
C14_CollectFailureAborts ==
    (Malformed(ir.script) \/ Malformed(ir.scriptSetup)) =>
        /\ gpc \in {"start", "parsed", "added", "done", "failed"}
        /\ derived = NoDerived
        /\ generated = NoGenerated
        /\ exposure = NoExposure
        /\ result = NoResult

\* the script block was collected, the script setup block then failed
C14_Witness ==
    /\ gpc = "failed"
    /\ ir.script.exists /\ ~Malformed(ir.script) /\ ranges.script.defined
    /\ Malformed(ir.scriptSetup)
    /\ ir.template.exists /\ ir.styles > 0

\* a block declares a name option
DeclaresName(block) == block.exists /\ block.decl.name # <<>>

\* the name the precedence rule selects
PreferredName ==
    IF DeclaresName(ir.script) THEN ir.script.decl.name[1]
    ELSE IF DeclaresName(ir.scriptSetup) /\ ir.scriptSetup.decl.name[1] # <<>>
    THEN ir.scriptSetup.decl.name[1]
    ELSE SubSeq(ir.fileName, 2, Len(ir.fileName) - 1)

DoubleHyphen(name) ==
    \E k \in 1..(Len(name) - 2) :
        name[k] = "-" /\ name[k + 1] = "-" /\ name[k + 2] \in WordChars

DeclaredInheritAttrs(block) == IF block.exists THEN block.decl.inheritAttrs ELSE "undefined"

\* C17: inheritAttrs is false exactly when script setup declares it false, or
\* script setup does not declare it and the script block declares it false;
\* the template generator is handed that value.
C17_InheritAttrs ==
    /\ Derived =>
        (derived.inheritAttrs = FALSE <=>
            \/ DeclaredInheritAttrs(ir.scriptSetup) = "false"
            \/ /\ DeclaredInheritAttrs(ir.scriptSetup) = "undefined"
               /\ DeclaredInheritAttrs(ir.script) = "false")
    /\ generated.template.defined =>
        generated.template.inheritAttrs = derived.inheritAttrs

\* script setup declares true over the script block's false
C17_Witness ==
    /\ generated.template.defined
    /\ DeclaredInheritAttrs(ir.scriptSetup) = "true"
    /\ DeclaredInheritAttrs(ir.script) = "false"
    /\ generated.template.inheritAttrs = TRUE

\* script setup's false wins over the script block's true
C17_WitnessFalse ==
    /\ generated.template.defined
    /\ DeclaredInheritAttrs(ir.scriptSetup) = "false"
    /\ DeclaredInheritAttrs(ir.script) = "true"
    /\ generated.template.inheritAttrs = FALSE


\* the outcome of the k-th call, once the call has finished
Finished(k) == k < Len(history) \/ gpc \in {"returned", "failed"}

OutcomeOfCall(k) == IF k < Len(history) THEN history[k].outcome ELSE Outcome

\* C13: a call's outcome depends on its own arguments only: two calls of one
\* sequence with equal arguments have equal outcomes, whatever was called in
\* between, and a call leaves the caller's arguments as they were.
C13_CallsIndependent ==
    history # <<>> =>
        /\ history[Len(history)].args = Arguments
        /\ \A j \in DOMAIN history : \A k \in DOMAIN history :
              (j < k /\ Finished(k) /\ history[j].args = history[k].args) =>
                  OutcomeOfCall(j) = OutcomeOfCall(k)

\* the same file with the same directive is generated before and after a call
\* with another directive, and the two outcomes carry resolved options
C13_Witness ==
    /\ Len(history) = 3
    /\ gpc = "returned"
    /\ history[1].args = history[3].args
    /\ history[1].args # history[2].args
    /\ history[1].args.comments = <<Comment("directive", "plugins", JArr(<<"./my-plugin">>))>>
    /\ history[2].args.comments = <<Comment("directive", "strictTemplates", JBool(TRUE))>>
    /\ history[1].outcome.result.returned
    /\ effective["plugins"] = JArr(<<"./my-plugin">>)
    /\ effective # globalOptions


====
